---- MODULE Spec2Model ----
(***************************************************************************)
(* Model of SberDataProcessor (ml_package_framework/data_processing/       *)
(* data_processors.py): the seven table transformations and process_data.  *)
(*                                                                         *)
(* A pandas DataFrame is a record                                          *)
(*   [isDataFrame, columns, dtypes, rows]                                  *)
(* columns is the column order, dtypes maps a column to its dtype, rows is *)
(* the sequence of rows in positional order (every frame the code builds   *)
(* carries a RangeIndex, so label = position - 1), a row maps a column to  *)
(* its cell.  A bool cell is TRUE/FALSE, an int64 cell an integer, a       *)
(* float64 cell a record [num, den] (den = 0: NaN when num = 0, inf        *)
(* otherwise; rounding of binary floats is not modelled), an object cell   *)
(* of a melted mixed frame is the boxed Python value [py, v].              *)
(***************************************************************************)
EXTENDS Integers, Sequences, FiniteSets, TLC

\* ---------------------------------------------------------------- bounds
MaxEvents == 4
MaxRows == 3

\* The values the inputs are drawn from.
Users == {1, 2}
Times == {1, 2}
\* cart values, listed in the order pandas sorts them (lexicographic)
ItemOrder == <<"A", "B">>
Items == {ItemOrder[i] : i \in 1..Len(ItemOrder)}

\* ---------------------------------------------------------------- helpers
Range(s) == {s[i] : i \in 1..Len(s)}

Min(S) == CHOOSE x \in S : \A y \in S : x <= y
Max(S) == CHOOSE x \in S : \A y \in S : y <= x

RECURSIVE SortedSeq(_)
\* ascending sequence of a finite set of integers
SortedSeq(S) == IF S = {} THEN <<>> ELSE <<Min(S)>> \o SortedSeq(S \ {Min(S)})

RECURSIVE SumSeq(_)
SumSeq(s) == IF s = <<>> THEN 0 ELSE Head(s) + SumSeq(Tail(s))

RECURSIVE Gcd(_, _)
Gcd(a, b) == IF b = 0 THEN a ELSE Gcd(b, a % b)

\* positions of s, in order, that satisfy the mask
RECURSIVE MaskIdx(_, _)
MaskIdx(mask, i) ==
    IF i > Len(mask) THEN <<>>
    ELSE (IF mask[i] THEN <<i>> ELSE <<>>) \o MaskIdx(mask, i + 1)

\* ---------------------------------------------------------------- cells
\* int(x) of a Python bool
BoolToInt(b) == IF b THEN 1 ELSE 0

NaN == [num |-> 0, den |-> 0]
Inf == [num |-> 1, den |-> 0]
\* a / b of two non-negative int64 cells as float64 (numpy true division)
TrueDiv(a, b) ==
    IF b = 0 THEN (IF a = 0 THEN NaN ELSE Inf)
    ELSE [num |-> a \div Gcd(a, b), den |-> b \div Gcd(a, b)]
\* an int64 cell upcast to float64
ToFloat(a) == [num |-> a, den |-> 1]

Digit == <<"0", "1", "2", "3", "4", "5", "6", "7", "8", "9">>
RECURSIVE IntToStr(_)
\* str(n) for n >= 0
IntToStr(n) == IF n < 10 THEN Digit[n + 1]
               ELSE IntToStr(n \div 10) \o Digit[(n % 10) + 1]

\* Series.astype(str) of one cell
AsStr(v, dtype) == IF dtype = "int64" THEN IntToStr(v) ELSE v

\* Series.astype(int) of one cell
AsInt(v, dtype) ==
    CASE dtype = "bool" -> BoolToInt(v)
      [] dtype = "int64" -> v
      [] dtype = "object" -> IF v.py = "bool" THEN BoolToInt(v.v) ELSE v.v

\* ---------------------------------------------------------------- frames
NotAFrame == [isDataFrame |-> FALSE, columns |-> <<>>, dtypes |-> <<>>,
              rows |-> <<>>]

Frame(cols, dts, rws) ==
    [isDataFrame |-> TRUE, columns |-> cols, dtypes |-> dts, rows |-> rws]

NoFrame == Frame(<<>>, <<>>, <<>>)

Cols(df) == Range(df.columns)
NRows(df) == Len(df.rows)

\* df[name] = values  (in place: overwrites the column or appends it)
SetColumn(df, name, dtype, values) ==
    LET cols == IF name \in Cols(df) THEN df.columns
                ELSE Append(df.columns, name)
    IN Frame(cols,
             [c \in Range(cols) |-> IF c = name THEN dtype ELSE df.dtypes[c]],
             [i \in 1..NRows(df) |->
                [c \in Range(cols) |-> IF c = name THEN values[i]
                                       ELSE df.rows[i][c]]])

\* df.drop(name, axis=1)
DropColumn(df, name) ==
    LET cols == SelectSeq(df.columns, LAMBDA c : c # name)
    IN Frame(cols, [c \in Range(cols) |-> df.dtypes[c]],
             [i \in 1..NRows(df) |-> [c \in Range(cols) |-> df.rows[i][c]]])

\* df[mask].reset_index(drop=True)
Filter(df, mask) ==
    LET idx == MaskIdx(mask, 1)
    IN Frame(df.columns, df.dtypes, [k \in 1..Len(idx) |-> df.rows[idx[k]]])

\* ---------------------------------------------------------------- errors
NoError == [type |-> "none", msg |-> "", missing |-> {}]
NotFrameError ==
    [type |-> "ValueError", msg |-> "Input must be a pandas DataFrame.",
     missing |-> {}]
\* the error naming every required column, as if the difference were lost
MissingErrorNamesAll(required, df) ==
    [type |-> "ValueError", msg |-> "Missing required columns",
     missing |-> required]

MissingError(required, df) ==
    [type |-> "ValueError", msg |-> "Missing required columns",
     missing |-> required \ Cols(df)]

\* the check every validating stage starts with
Validate(df, required) ==
    IF ~df.isDataFrame THEN NotFrameError
    ELSE IF ~(required \subseteq Cols(df)) THEN MissingError(required, df)
    ELSE NoError

\* ---------------------------------------------------------------- load_data
\* A path is the sequence of its pieces, each piece either the dot "." or a
\* run of characters without a dot; the path string is their concatenation.
RECURSIVE Concat(_)
Concat(pieces) ==
    IF pieces = <<>> THEN "" ELSE Head(pieces) \o Concat(Tail(pieces))

\* position of the last dot of the path, 0 when it has none
LastDot(path) ==
    IF \E i \in 1..Len(path) : path[i] = "."
    THEN Max({i \in 1..Len(path) : path[i] = "."})
    ELSE 0

\* path.split(".")[-1]: what follows the last dot, the whole path when
\* there is no dot
FileExtension(path) == Concat(SubSeq(path, LastDot(path) + 1, Len(path)))

UnsupportedError ==
    [type |-> "ValueError", msg |-> "File with the extension is not supported.",
     missing |-> {}]

\* load_data(path): [err, reader]; reader is the pandas reader handed the path
load_data(path) ==
    IF FileExtension(path) = "csv"
    THEN [err |-> NoError, reader |-> "read_csv"]
    ELSE IF FileExtension(path) = "json"
    THEN [err |-> NoError, reader |-> "read_json"]
    ELSE [err |-> UnsupportedError, reader |-> "none"]

\* ------------------------------------------------- create_user_item_matrix
\* pd.get_dummies(df, columns=["cart"], prefix="", prefix_sep="",
\* dtype="bool"): the cart column is replaced by one bool column per distinct
\* cart value, named by the value, appended in sorted order.
GetDummies(df) ==
    LET seen == {df.rows[i]["cart"] : i \in 1..NRows(df)}
        dummies == SelectSeq(ItemOrder, LAMBDA c : c \in seen)
        kept == SelectSeq(df.columns, LAMBDA c : c # "cart")
        cols == kept \o dummies
    IN Frame(cols,
             [c \in Range(cols) |-> IF c \in Range(kept) THEN df.dtypes[c]
                                    ELSE "bool"],
             [i \in 1..NRows(df) |->
                [c \in Range(cols) |-> IF c \in Range(kept) THEN df.rows[i][c]
                                       ELSE df.rows[i]["cart"] = c]])

\* least pair of S in lexicographic order
LexMin(S) ==
    CHOOSE p \in S : \A q \in S : p[1] < q[1] \/ (p[1] = q[1] /\ p[2] <= q[2])

RECURSIVE SortedPairs(_)
SortedPairs(S) ==
    IF S = {} THEN <<>> ELSE <<LexMin(S)>> \o SortedPairs(S \ {LexMin(S)})

\* the groups reduced with a logical AND, as if the aggregate were .all()
GroupByAll(df) ==
    LET keys == SortedPairs({<<df.rows[i]["user_id"],
                               df.rows[i]["order_completed_at"]>> :
                             i \in 1..NRows(df)})
        vals == SelectSeq(df.columns,
                          LAMBDA c : c \notin {"user_id", "order_completed_at"})
        cols == <<"user_id", "order_completed_at">> \o vals
    IN Frame(cols,
             [c \in Range(cols) |-> IF c \in Range(vals) THEN "bool"
                                    ELSE df.dtypes[c]],
             [k \in 1..Len(keys) |->
                [c \in Range(cols) |->
                   CASE c = "user_id" -> keys[k][1]
                     [] c = "order_completed_at" -> keys[k][2]
                     [] OTHER ->
                        \A i \in 1..NRows(df) :
                           (/\ df.rows[i]["user_id"] = keys[k][1]
                            /\ df.rows[i]["order_completed_at"] = keys[k][2])
                           => df.rows[i][c]]])

RECURSIVE FirstSeen(_, _)
\* the distinct key pairs of df from row i on, in order of first appearance
FirstSeen(df, i) ==
    IF i > NRows(df) THEN <<>>
    ELSE LET key == <<df.rows[i]["user_id"], df.rows[i]["order_completed_at"]>>
             seen == \E j \in 1..(i - 1) :
                        /\ df.rows[j]["user_id"] = key[1]
                        /\ df.rows[j]["order_completed_at"] = key[2]
         IN (IF seen THEN <<>> ELSE <<key>>) \o FirstSeen(df, i + 1)

\* the groups kept in order of first appearance, as if sort=False were passed
GroupByAnyUnsorted(df) ==
    LET keys == FirstSeen(df, 1)
        vals == SelectSeq(df.columns,
                          LAMBDA c : c \notin {"user_id", "order_completed_at"})
        cols == <<"user_id", "order_completed_at">> \o vals
    IN Frame(cols,
             [c \in Range(cols) |-> IF c \in Range(vals) THEN "bool"
                                    ELSE df.dtypes[c]],
             [k \in 1..Len(keys) |->
                [c \in Range(cols) |->
                   CASE c = "user_id" -> keys[k][1]
                     [] c = "order_completed_at" -> keys[k][2]
                     [] OTHER ->
                        \E i \in 1..NRows(df) :
                           /\ df.rows[i]["user_id"] = keys[k][1]
                           /\ df.rows[i]["order_completed_at"] = keys[k][2]
                           /\ df.rows[i][c]]])

\* df.groupby(["user_id", "order_completed_at"]).any().reset_index():
\* one row per distinct key pair, in sorted key order; every other column is
\* reduced with a logical OR over the rows of the group.
GroupByAny(df) ==
    LET keys == SortedPairs({<<df.rows[i]["user_id"],
                               df.rows[i]["order_completed_at"]>> :
                             i \in 1..NRows(df)})
        vals == SelectSeq(df.columns,
                          LAMBDA c : c \notin {"user_id", "order_completed_at"})
        cols == <<"user_id", "order_completed_at">> \o vals
    IN Frame(cols,
             [c \in Range(cols) |-> IF c \in Range(vals) THEN "bool"
                                    ELSE df.dtypes[c]],
             [k \in 1..Len(keys) |->
                [c \in Range(cols) |->
                   CASE c = "user_id" -> keys[k][1]
                     [] c = "order_completed_at" -> keys[k][2]
                     [] OTHER ->
                        \E i \in 1..NRows(df) :
                           /\ df.rows[i]["user_id"] = keys[k][1]
                           /\ df.rows[i]["order_completed_at"] = keys[k][2]
                           /\ df.rows[i][c]]])

\* create_user_item_matrix(df): [err, out]
create_user_item_matrix(df) ==
    LET e == Validate(df, {"cart", "user_id", "order_completed_at"})
    IN IF e # NoError THEN [err |-> e, out |-> NoFrame]
       ELSE [err |-> NoError, out |-> GroupByAny(GetDummies(df))]

\* ---------------------------------------------------- add_purchase_counter
\* the count started at one, as if it were cumcount() + 1
CumCountFromOne(df) ==
    [i \in 1..NRows(df) |->
       Cardinality({j \in 1..i :
                      df.rows[j]["user_id"] = df.rows[i]["user_id"]})]

\* df.groupby(["user_id"]).cumcount(): the number of earlier rows, in the
\* frame's row order, of the same user
CumCount(df) ==
    [i \in 1..NRows(df) |->
       Cardinality({j \in 1..(i - 1) :
                      df.rows[j]["user_id"] = df.rows[i]["user_id"]})]

\* add_purchase_counter(df): [err, out, arg]; arg is the caller's frame after
\* the call (the order_number column is assigned on the argument itself)
add_purchase_counter(df) ==
    LET e == Validate(df, {"user_id", "order_completed_at"})
        counted == SetColumn(df, "order_number", "int64", CumCount(df))
    IN IF e # NoError THEN [err |-> e, out |-> NoFrame, arg |-> df]
       ELSE [err |-> NoError,
             out |-> DropColumn(counted, "order_completed_at"),
             arg |-> counted]

\* ------------------------------------------------------------ split_dataset
\* the mask of each user's first order, as if the transform were "min"
FirstOrderMask(df) ==
    [i \in 1..NRows(df) |->
       df.rows[i]["order_number"] =
          Min({df.rows[j]["order_number"] :
                 j \in {k \in 1..NRows(df) :
                          df.rows[k]["user_id"] = df.rows[i]["user_id"]}})]

\* df.groupby(["user_id"])["order_number"].transform("max") == df["order_number"]
LastOrderMask(df) ==
    [i \in 1..NRows(df) |->
       df.rows[i]["order_number"] =
          Max({df.rows[j]["order_number"] :
                 j \in {k \in 1..NRows(df) :
                          df.rows[k]["user_id"] = df.rows[i]["user_id"]}})]

\* df.groupby("user_id").sum().reset_index(): one row per user that has a
\* row in df, in sorted user order; bool and int64 columns are summed to int64
GroupBySum(df) ==
    LET users == SortedSeq({df.rows[i]["user_id"] : i \in 1..NRows(df)})
        vals == SelectSeq(df.columns, LAMBDA c : c # "user_id")
        cols == <<"user_id">> \o vals
        Cell(i, c) == IF df.dtypes[c] = "bool" THEN BoolToInt(df.rows[i][c])
                      ELSE df.rows[i][c]
    IN Frame(cols,
             [c \in Range(cols) |-> IF c = "user_id" THEN df.dtypes[c]
                                    ELSE "int64"],
             [k \in 1..Len(users) |->
                [c \in Range(cols) |->
                   IF c = "user_id" THEN users[k]
                   ELSE SumSeq([i \in 1..NRows(df) |->
                                  IF df.rows[i]["user_id"] = users[k]
                                  THEN Cell(i, c) ELSE 0])]])

\* the history summed over every row, as if the ~last_order filter were lost
split_dataset_SumAll(df) ==
    LET e == Validate(df, {"user_id", "order_number"})
    IN IF e # NoError
       THEN [err |-> e, df_ex_last |-> NoFrame, df_incl_last |-> NoFrame]
       ELSE [err |-> NoError,
             df_ex_last |-> GroupBySum(df),
             df_incl_last |-> Filter(df, LastOrderMask(df))]

\* split_dataset(df): [err, df_ex_last, df_incl_last]
split_dataset(df) ==
    LET e == Validate(df, {"user_id", "order_number"})
        last_order == LastOrderMask(df)
        not_last == [i \in 1..NRows(df) |-> ~last_order[i]]
    IN IF e # NoError
       THEN [err |-> e, df_ex_last |-> NoFrame, df_incl_last |-> NoFrame]
       ELSE [err |-> NoError,
             df_ex_last |-> GroupBySum(Filter(df, not_last)),
             df_incl_last |-> Filter(df, last_order)]

\* ---------------------------------------------------- long_format_transform
\* pd.melt(df, id_vars=["user_id"], var_name="category", value_name=name):
\* every column other than user_id is unpivoted, column after column, each
\* column contributing its cells in row order.  Columns of one dtype keep it;
\* a mix of bool and int64 columns becomes an object column of Python values.
Melt(df, name) ==
    LET vars == SelectSeq(df.columns, LAMBDA c : c # "user_id")
        n == NRows(df)
        kinds == {df.dtypes[c] : c \in Range(vars)}
        dtype == IF Cardinality(kinds) = 1 THEN CHOOSE d \in kinds : TRUE
                 ELSE "object"
        Box(v, d) == IF dtype # "object" THEN v
                     ELSE [py |-> IF d = "bool" THEN "bool" ELSE "int", v |-> v]
        cols == <<"user_id", "category", name>>
    IN Frame(cols,
             [c \in Range(cols) |->
                CASE c = "user_id" -> df.dtypes["user_id"]
                  [] c = "category" -> "object"
                  [] OTHER -> dtype],
             [p \in 1..(n * Len(vars)) |->
                LET k == ((p - 1) \div n) + 1
                    i == ((p - 1) % n) + 1
                IN [c \in Range(cols) |->
                      CASE c = "user_id" -> df.rows[i]["user_id"]
                        [] c = "category" -> vars[k]
                        [] OTHER -> Box(df.rows[i][vars[k]],
                                        df.dtypes[vars[k]])]])

BothFramesError ==
    [type |-> "ValueError", msg |-> "Both inputs must be pandas DataFrames.",
     missing |-> {}]

\* long_format_transform(df_ex_last, df_incl_last):
\* [err, df_ex_last_long, df_incl_last_long]
long_format_transform(ex_last, incl_last) ==
    IF ~ex_last.isDataFrame \/ ~incl_last.isDataFrame
    THEN [err |-> BothFramesError, df_ex_last_long |-> NoFrame,
          df_incl_last_long |-> NoFrame]
    ELSE [err |-> NoError,
          df_ex_last_long |-> Melt(ex_last, "ordered"),
          df_incl_last_long |-> Melt(incl_last, "target")]

\* ------------------------------------------------------- calculate_features
NotCallableError ==
    [type |-> "TypeError", msg |-> "'numpy.int64' object is not callable",
     missing |-> {}]

\* df_incl_last[["user_id", "order_number"]].set_index("user_id").squeeze()
\* squeezes a one-column frame to a Series indexed by user_id, and a
\* one-row, one-column frame to the bare scalar.
SqueezedIsScalar(incl_last) == NRows(incl_last) = 1

\* the index entries of the squeezed Series that carry user u
UserEntries(incl_last, u) ==
    {j \in 1..NRows(incl_last) : incl_last.rows[j]["user_id"] = u}

\* Series.map(order_number) with order_number a Series: the value at the
\* user's index entry as float64, NaN when the user is no entry of the index
MapUser(incl_last, u) ==
    IF UserEntries(incl_last, u) = {} THEN NaN
    ELSE ToFloat(incl_last.rows[CHOOSE j \in UserEntries(incl_last, u) : TRUE]
                               ["order_number"])

\* calculate_features(df_ex_last_flatten, df_incl_last): [err, out]
\* orders_total stays int64 when every user is found in the index and is
\* float64 (with NaN) otherwise.
calculate_features(ex_last_flatten, incl_last) ==
    LET n == NRows(ex_last_flatten)
        found == \A i \in 1..n :
                   UserEntries(incl_last,
                               ex_last_flatten.rows[i]["user_id"]) # {}
        mapped == [i \in 1..n |->
                     MapUser(incl_last, ex_last_flatten.rows[i]["user_id"])]
        orders_total == [i \in 1..n |-> IF found THEN mapped[i].num
                                        ELSE mapped[i]]
        rating ==
            [i \in 1..n |->
               IF mapped[i].den = 0 THEN NaN
               ELSE TrueDiv(ex_last_flatten.rows[i]["ordered"], mapped[i].num)]
        id == [i \in 1..n |->
                 AsStr(ex_last_flatten.rows[i]["user_id"],
                       ex_last_flatten.dtypes["user_id"])
                 \o ";" \o ex_last_flatten.rows[i]["category"]]
        train_df ==
            SetColumn(SetColumn(SetColumn(ex_last_flatten,
                "orders_total", IF found THEN "int64" ELSE "float64",
                orders_total),
                "rating", "float64", rating),
                "id", "object", id)
    IN IF SqueezedIsScalar(incl_last) /\ n > 0
       THEN [err |-> NotCallableError, out |-> NoFrame]
       ELSE [err |-> NoError, out |-> train_df]

\* --------------------------------------------------------- merge_and_filter
\* train_df["target"] = df_incl_last["target"].astype(int): the Series is
\* aligned on the index labels, which are the positions in both frames; a
\* label the Series lacks gets NaN (and the column becomes float64).
TargetColumn(train_df, incl_last) ==
    [i \in 1..NRows(train_df) |->
       IF NRows(train_df) <= NRows(incl_last)
       THEN AsInt(incl_last.rows[i]["target"], incl_last.dtypes["target"])
       ELSE IF i <= NRows(incl_last)
       THEN ToFloat(AsInt(incl_last.rows[i]["target"],
                          incl_last.dtypes["target"]))
       ELSE NaN]

\* the mask negated, as if the filter read train_df[~train_df.id.isin(...)]
IsInNegated(train_df, submission_df) ==
    [i \in 1..NRows(train_df) |->
       ~\E j \in 1..NRows(submission_df) :
           submission_df.rows[j]["id"] = train_df.rows[i]["id"]]

\* train_df.id.isin(submission_df.id.unique())
IsIn(train_df, submission_df) ==
    [i \in 1..NRows(train_df) |->
       \E j \in 1..NRows(submission_df) :
          submission_df.rows[j]["id"] = train_df.rows[i]["id"]]

\* merge_and_filter(train_df, df_incl_last, submission_df): [out, arg]; arg
\* is the caller's train_df after the call (target is assigned on it)
merge_and_filter(train_df, incl_last, submission_df) ==
    LET merged ==
            SetColumn(train_df, "target",
                      IF NRows(train_df) <= NRows(incl_last) THEN "int64"
                      ELSE "float64",
                      TargetColumn(train_df, incl_last))
    IN [out |-> Filter(merged, IsIn(merged, submission_df)),
        arg |-> merged]

\* -------------------------------------------------- calculate_total_ordered
\* the per-category row count, as if the aggregate were .count()
TotalOrderedAsCount(train_df, category) ==
    Cardinality({i \in 1..NRows(train_df) :
                   train_df.rows[i]["category"] = category})

\* train_df.groupby("category")["ordered"].sum(), looked up by category
TotalOrdered(train_df, category) ==
    SumSeq([i \in 1..NRows(train_df) |->
              IF train_df.rows[i]["category"] = category
              THEN train_df.rows[i]["ordered"] ELSE 0])

\* calculate_total_ordered(train_df): the argument itself, with the
\* total_ordered column assigned on it
calculate_total_ordered(train_df) ==
    SetColumn(train_df, "total_ordered", "int64",
              [i \in 1..NRows(train_df) |->
                 TotalOrdered(train_df, train_df.rows[i]["category"])])

\* ------------------------------------------------------------------ state
VARIABLES
    mode,       \* "process_data": the pipeline; "call": one method called alone
    pc,         \* the stage reached ("done" at the end), or "raised"
    last,       \* the method called last, "none" before the first call
    err,        \* the exception raised, NoError if none
    before,     \* the arguments of the last method call as they were passed
    data,       \* process_data's data / create_user_item_matrix's df
    sub,        \* kwargs["sub"], the allowlist
    intersection_matrix,
    intersection_matrix_with_counter,
    df_ex_last,
    df_incl_last,
    df_ex_last_flatten,
    df_incl_last_flatten,
    feature_table,  \* the frame calculate_features returns
    train_df,       \* the frame merge_and_filter returns
    path,           \* load_data's path, as its pieces
    reader          \* the pandas reader load_data invoked, "none" if none

vars == <<mode, pc, last, err, before, data, sub, intersection_matrix,
          intersection_matrix_with_counter, df_ex_last, df_incl_last,
          df_ex_last_flatten, df_incl_last_flatten, feature_table, train_df,
          path, reader>>

\* the frames of the pipeline
frames == <<data, sub, intersection_matrix, intersection_matrix_with_counter,
            df_ex_last, df_incl_last, df_ex_last_flatten,
            df_incl_last_flatten, feature_table, train_df>>

\* --------------------------------------------------------------- inputs
\* all frames with the given columns whose rows come from rowset
FramesOf(cols, dts, rowset, maxlen) ==
    UNION {{Frame(cols, dts, rws) : rws \in [1..n -> rowset]} : n \in 0..maxlen}

\* df is such a frame (the same set, enumerated row by row)
IsFrameOf(df, cols, dts, rowset, maxlen) ==
    \E n \in 0..maxlen : \E rws \in [1..n -> rowset] :
       df = Frame(cols, dts, rws)

Project(r, cols) == [c \in Range(cols) |-> r[c]]

\* column lists with one column of cols left out, and cols itself
ColumnChoices(cols) ==
    {cols} \cup {SelectSeq(cols, LAMBDA c : c # cols[k]) : k \in 1..Len(cols)}

EventCols == <<"user_id", "order_completed_at", "cart">>
EventTypes == [user_id |-> "int64", order_completed_at |-> "int64",
               cart |-> "object"]
EventRows == {[user_id |-> u, order_completed_at |-> t, cart |-> c] :
                u \in Users, t \in Times, c \in Items}

\* no row of the frame occurs twice
DistinctRows(df) ==
    \A i, j \in 1..NRows(df) : df.rows[i] = df.rows[j] => i = j

\* frames lacking one column of cols (rows projected), up to one row
Lacking(cols, dts, rowset) ==
    UNION {FramesOf(cs, Project(dts, cs), {Project(r, cs) : r \in rowset}, 1) :
             cs \in ColumnChoices(cols) \ {cols}}

MatrixCols == <<"user_id", "order_completed_at", "A">>
MatrixTypes == [user_id |-> "int64", order_completed_at |-> "int64",
                A |-> "bool"]
MatrixRows == {[user_id |-> u, order_completed_at |-> t, A |-> a] :
                 u \in Users, t \in Times, a \in BOOLEAN}

SequencedCols == <<"user_id", "A", "order_number">>
SequencedTypes == [user_id |-> "int64", A |-> "bool", order_number |-> "int64"]
SequencedRows == {[user_id |-> u, A |-> a, order_number |-> k] :
                    u \in Users, a \in BOOLEAN, k \in 0..2}

\* holdout frames handed to calculate_features alone: one row per user
HoldoutRows == {[user_id |-> u, A |-> TRUE, order_number |-> k] :
                  u \in Users, k \in {0, 1, 4}}
HoldoutTables ==
    {h \in FramesOf(SequencedCols, SequencedTypes, HoldoutRows,
                    Cardinality(Users)) :
       \A i, j \in 1..NRows(h) :
          h.rows[i]["user_id"] = h.rows[j]["user_id"] => i = j}

MaxLong == 2
LongCols == <<"user_id", "category", "ordered">>
LongTypes == [user_id |-> "int64", category |-> "object", ordered |-> "int64"]
\* the history may hold a user that no holdout table has a row for
HistoryUsers == Users \cup {3}
LongRows == {[user_id |-> u, category |-> "A", ordered |-> o] :
               u \in HistoryUsers, o \in 0..2}

\* user_id is an opaque key and may be text: a long history table keyed by
\* text users whose identifiers, like the item names, may hold a semicolon,
\* and a holdout table with a row for each of these users
TextUsers == {"1", "1;A"}
TextItems == {"A;B", "B"}
TextLongTypes == [user_id |-> "object", category |-> "object",
                  ordered |-> "int64"]
TextLongRows == {[user_id |-> u, category |-> c, ordered |-> o] :
                   u \in TextUsers, c \in TextItems, o \in 0..1}
TextHoldout ==
    Frame(SequencedCols,
          [user_id |-> "object", A |-> "bool", order_number |-> "int64"],
          <<[user_id |-> "1", A |-> TRUE, order_number |-> 1],
            [user_id |-> "1;A", A |-> TRUE, order_number |-> 2]>>)

\* the allowlists process_data is given
IdFrame(ids) == Frame(<<"id">>, [id |-> "object"],
                      [i \in 1..Len(ids) |-> [id |-> ids[i]]])
Allowlists ==
    {IdFrame(<<>>),
     IdFrame(<<"1;A", "1;B", "2;A">>),
     IdFrame(<<"2;B", "2;A", "1;A", "2;B">>),
     IdFrame(<<"1;B", "2;order_number", "3;A">>)}

\* the pieces paths are made of, and the longest path
MaxPath == 3
PathPieces == {".", "csv", "CSV", "json", "xlsx", "cs", "v"}

\* ------------------------------------------------------------------- Init
Blank ==
    /\ last = "none"
    /\ reader = "none"
    /\ err = NoError
    /\ before = <<>>
    /\ sub = NoFrame
    /\ feature_table = NoFrame
    /\ train_df = NoFrame

\* process_data(data, sub=...) is about to run
InitProcessData ==
    /\ mode = "process_data"
    /\ path = <<>>
    /\ pc = "start"
    /\ \/ /\ IsFrameOf(data, EventCols, EventTypes, EventRows, MaxEvents)
          /\ DistinctRows(data)
       \/ data \in Lacking(EventCols, EventTypes, EventRows) \cup {NotAFrame}
    /\ intersection_matrix = NoFrame
    /\ intersection_matrix_with_counter = NoFrame
    /\ df_ex_last = NoFrame
    /\ df_incl_last = NoFrame
    /\ df_ex_last_flatten = NoFrame
    /\ df_incl_last_flatten = NoFrame
    /\ Blank

\* create_user_item_matrix(df) is about to be called on its own
InitCallMatrix ==
    /\ mode = "call"
    /\ path = <<>>
    /\ pc = "start"
    /\ \/ IsFrameOf(data, EventCols, EventTypes, EventRows, MaxRows)
       \/ data \in Lacking(EventCols, EventTypes, EventRows) \cup {NotAFrame}
    /\ intersection_matrix = NoFrame
    /\ intersection_matrix_with_counter = NoFrame
    /\ df_ex_last = NoFrame
    /\ df_incl_last = NoFrame
    /\ df_ex_last_flatten = NoFrame
    /\ df_incl_last_flatten = NoFrame
    /\ Blank

\* add_purchase_counter(df) is about to be called on its own
InitCallCounter ==
    /\ mode = "call"
    /\ path = <<>>
    /\ pc = "matrix"
    /\ data = NoFrame
    /\ \/ IsFrameOf(intersection_matrix, MatrixCols, MatrixTypes, MatrixRows,
                    MaxRows)
       \/ intersection_matrix \in
             Lacking(MatrixCols, MatrixTypes, MatrixRows) \cup {NotAFrame}
    /\ intersection_matrix_with_counter = NoFrame
    /\ df_ex_last = NoFrame
    /\ df_incl_last = NoFrame
    /\ df_ex_last_flatten = NoFrame
    /\ df_incl_last_flatten = NoFrame
    /\ Blank

\* split_dataset(df) is about to be called on its own
InitCallSplit ==
    /\ mode = "call"
    /\ path = <<>>
    /\ pc = "counter"
    /\ data = NoFrame
    /\ intersection_matrix = NoFrame
    /\ \/ IsFrameOf(intersection_matrix_with_counter, SequencedCols,
                    SequencedTypes, SequencedRows, MaxRows)
       \/ intersection_matrix_with_counter \in
             Lacking(SequencedCols, SequencedTypes, SequencedRows)
             \cup {NotAFrame}
    /\ df_ex_last = NoFrame
    /\ df_incl_last = NoFrame
    /\ df_ex_last_flatten = NoFrame
    /\ df_incl_last_flatten = NoFrame
    /\ Blank

\* calculate_features(df_ex_last_flatten, df_incl_last) is about to be called
\* on its own
InitCallFeatures ==
    /\ mode = "call"
    /\ path = <<>>
    /\ pc = "long"
    /\ data = NoFrame
    /\ intersection_matrix = NoFrame
    /\ intersection_matrix_with_counter = NoFrame
    /\ df_ex_last = NoFrame
    /\ df_incl_last \in HoldoutTables
    /\ IsFrameOf(df_ex_last_flatten, LongCols, LongTypes, LongRows, MaxLong)
    /\ df_incl_last_flatten = NoFrame
    /\ Blank

\* calculate_features is about to be called on its own on tables keyed by
\* text users
InitCallFeaturesText ==
    /\ mode = "call"
    /\ path = <<>>
    /\ pc = "long"
    /\ data = NoFrame
    /\ intersection_matrix = NoFrame
    /\ intersection_matrix_with_counter = NoFrame
    /\ df_ex_last = NoFrame
    /\ df_incl_last = TextHoldout
    /\ IsFrameOf(df_ex_last_flatten, LongCols, TextLongTypes, TextLongRows,
                 MaxLong)
    /\ df_incl_last_flatten = NoFrame
    /\ Blank

\* load_data(path) is about to be called
InitCallLoad ==
    /\ mode = "call"
    /\ pc = "load"
    /\ \E n \in 0..MaxPath : path \in [1..n -> PathPieces]
    /\ data = NoFrame
    /\ intersection_matrix = NoFrame
    /\ intersection_matrix_with_counter = NoFrame
    /\ df_ex_last = NoFrame
    /\ df_incl_last = NoFrame
    /\ df_ex_last_flatten = NoFrame
    /\ df_incl_last_flatten = NoFrame
    /\ Blank

Init ==
    \/ InitCallLoad
    \/ InitProcessData
    \/ InitCallMatrix
    \/ InitCallCounter
    \/ InitCallSplit
    \/ InitCallFeatures
    \/ InitCallFeaturesText

\* ---------------------------------------------------------------- actions
\* where control goes after a stage
After(e, next) == IF e # NoError THEN "raised" ELSE next

\* a method can run at stage p: process_data runs the stages in turn, a
\* method called alone runs once
Ready(p) == pc = p /\ (mode = "call" => last = "none")

LoadData ==
    /\ Ready("load")
    /\ last' = "load_data"
    /\ LET r == load_data(path)
       IN /\ err' = r.err
          /\ reader' = r.reader
          /\ pc' = After(r.err, "loaded")
    /\ before' = <<>>
    /\ UNCHANGED <<mode, path>>
    /\ UNCHANGED frames

CreateUserItemMatrix ==
    /\ Ready("start")
    /\ last' = "create_user_item_matrix"
    /\ LET r == create_user_item_matrix(data)
       IN /\ err' = r.err
          /\ intersection_matrix' = r.out
          /\ pc' = After(r.err, "matrix")
    /\ before' = <<data>>
    /\ UNCHANGED <<path, reader>>
    /\ UNCHANGED <<mode, data, sub, intersection_matrix_with_counter,
                   df_ex_last, df_incl_last, df_ex_last_flatten,
                   df_incl_last_flatten, feature_table, train_df>>

AddPurchaseCounter ==
    /\ Ready("matrix")
    /\ last' = "add_purchase_counter"
    /\ LET r == add_purchase_counter(intersection_matrix)
       IN /\ err' = r.err
          /\ intersection_matrix' = r.arg
          /\ intersection_matrix_with_counter' = r.out
          /\ pc' = After(r.err, "counter")
    /\ before' = <<intersection_matrix>>
    /\ UNCHANGED <<path, reader>>
    /\ UNCHANGED <<mode, data, sub, df_ex_last, df_incl_last,
                   df_ex_last_flatten, df_incl_last_flatten, feature_table,
                   train_df>>

SplitDataset ==
    /\ Ready("counter")
    /\ last' = "split_dataset"
    /\ LET r == split_dataset(intersection_matrix_with_counter)
       IN /\ err' = r.err
          /\ df_ex_last' = r.df_ex_last
          /\ df_incl_last' = r.df_incl_last
          /\ pc' = After(r.err, "split")
    /\ before' = <<intersection_matrix_with_counter>>
    /\ UNCHANGED <<path, reader>>
    /\ UNCHANGED <<mode, data, sub, intersection_matrix,
                   intersection_matrix_with_counter, df_ex_last_flatten,
                   df_incl_last_flatten, feature_table, train_df>>

LongFormatTransform ==
    /\ Ready("split")
    /\ last' = "long_format_transform"
    /\ LET r == long_format_transform(df_ex_last, df_incl_last)
       IN /\ err' = r.err
          /\ df_ex_last_flatten' = r.df_ex_last_long
          /\ df_incl_last_flatten' = r.df_incl_last_long
          /\ pc' = After(r.err, "long")
    /\ before' = <<df_ex_last, df_incl_last>>
    /\ UNCHANGED <<path, reader>>
    /\ UNCHANGED <<mode, data, sub, intersection_matrix,
                   intersection_matrix_with_counter, df_ex_last, df_incl_last,
                   feature_table, train_df>>

CalculateFeatures ==
    /\ Ready("long")
    /\ last' = "calculate_features"
    /\ LET r == calculate_features(df_ex_last_flatten, df_incl_last)
       IN /\ err' = r.err
          /\ feature_table' = r.out
          /\ pc' = After(r.err, "features")
    /\ before' = <<df_ex_last_flatten, df_incl_last>>
    /\ UNCHANGED <<path, reader>>
    /\ UNCHANGED <<mode, data, sub, intersection_matrix,
                   intersection_matrix_with_counter, df_ex_last, df_incl_last,
                   df_ex_last_flatten, df_incl_last_flatten, train_df>>

MergeAndFilter ==
    /\ Ready("features")
    /\ last' = "merge_and_filter"
    /\ \E s \in Allowlists :
          LET r == merge_and_filter(feature_table, df_incl_last_flatten, s)
          IN /\ sub' = s
             /\ feature_table' = r.arg
             /\ train_df' = r.out
             /\ before' = <<feature_table, df_incl_last_flatten, s>>
    /\ pc' = After(NoError, "merged")
    /\ UNCHANGED <<path, reader>>
    /\ UNCHANGED <<mode, err, data, intersection_matrix,
                   intersection_matrix_with_counter, df_ex_last, df_incl_last,
                   df_ex_last_flatten, df_incl_last_flatten>>

CalculateTotalOrdered ==
    /\ Ready("merged")
    /\ last' = "calculate_total_ordered"
    /\ train_df' = calculate_total_ordered(train_df)
    /\ before' = <<train_df>>
    /\ pc' = "done"
    /\ UNCHANGED <<path, reader>>
    /\ UNCHANGED <<mode, err, data, sub, intersection_matrix,
                   intersection_matrix_with_counter, df_ex_last, df_incl_last,
                   df_ex_last_flatten, df_incl_last_flatten, feature_table>>

Next ==
    \/ LoadData
    \/ CreateUserItemMatrix
    \/ AddPurchaseCounter
    \/ SplitDataset
    \/ LongFormatTransform
    \/ CalculateFeatures
    \/ MergeAndFilter
    \/ CalculateTotalOrdered

Spec == Init /\ [][Next]_vars

\* ================================================================ claims
\* the method m has just returned normally
Returned(m) == last = m /\ pc # "raised"

Event(u, t, c) == [user_id |-> u, order_completed_at |-> t, cart |-> c]

\* the greatest order_completed_at of user u in the event table
MostRecent(u) ==
    Max({data.rows[i]["order_completed_at"] :
           i \in {k \in 1..NRows(data) : data.rows[k]["user_id"] = u}})

\* item c is in the most recent order of user u
InHoldoutOrder(u, c) ==
    \E i \in 1..NRows(data) : data.rows[i] = Event(u, MostRecent(u), c)

\* C1: in process_data, when merge_and_filter attaches target, row i of the
\* Feature Table and row i of the Long Holdout Table carry the same
\* (user_id, category); and every output row has target 1 if its category is
\* in its user's most recent order and 0 otherwise.
C1_TargetIsHoldoutPresence ==
    /\ (mode = "process_data" /\ Returned("calculate_features")) =>
          \A i \in 1..NRows(feature_table) :
             /\ i <= NRows(df_incl_last_flatten)
             /\ df_incl_last_flatten.rows[i]["user_id"] =
                   feature_table.rows[i]["user_id"]
             /\ df_incl_last_flatten.rows[i]["category"] =
                   feature_table.rows[i]["category"]
    /\ (mode = "process_data" /\ pc \in {"merged", "done"}) =>
          \A i \in 1..NRows(train_df) :
             train_df.rows[i]["target"] =
                IF InHoldoutOrder(train_df.rows[i]["user_id"],
                                  train_df.rows[i]["category"])
                THEN 1 ELSE 0

\* the ids of the allowlist
AllowedIds == {sub.rows[j]["id"] : j \in 1..NRows(sub)}

\* C2: merge_and_filter returns exactly the Feature Table rows whose id is in
\* the allowlist's id column: none with another id, none dropped, none
\* duplicated, in their original relative order.
C2_FilterKeepsExactlyAllowedRows ==
    Returned("merge_and_filter") =>
        LET given == before[1]
            kept == SelectSeq(given.rows, LAMBDA r : r["id"] \in AllowedIds)
        IN /\ NRows(train_df) = Len(kept)
           /\ \A k \in 1..Len(kept) :
                 /\ train_df.rows[k]["id"] \in AllowedIds
                 /\ Project(train_df.rows[k], given.columns) = kept[k]

\* C2 happens: the filter kept some rows and dropped others
C2_Witness ==
    /\ Returned("merge_and_filter")
    /\ NRows(train_df) > 0
    /\ NRows(train_df) < NRows(before[1])

\* the rows of df with the given category
RowsOfCategory(df, c) == {i \in 1..NRows(df) : df.rows[i]["category"] = c}

RECURSIVE SumOrdered(_, _)
\* sum of ordered over the rows S of df
SumOrdered(df, S) ==
    IF S = {} THEN 0
    ELSE LET i == CHOOSE k \in S : TRUE
         IN df.rows[i]["ordered"] + SumOrdered(df, S \ {i})

\* C4: after calculate_total_ordered every row's total_ordered is the sum of
\* ordered over the rows of its category in the table the method was given
\* (so rows of one category agree); the row count and the other columns are
\* as given.
C4_TotalOrderedIsCategorySum ==
    Returned("calculate_total_ordered") =>
        LET given == before[1]
        IN /\ NRows(train_df) = NRows(given)
           /\ train_df.columns = Append(given.columns, "total_ordered")
           /\ \A i \in 1..NRows(train_df) :
                 /\ Project(train_df.rows[i], given.columns) = given.rows[i]
                 /\ train_df.rows[i]["total_ordered"] =
                       SumOrdered(given,
                                  RowsOfCategory(given,
                                                 given.rows[i]["category"]))
                 /\ \A j \in 1..NRows(train_df) :
                       train_df.rows[j]["category"] =
                          train_df.rows[i]["category"]
                       => train_df.rows[j]["total_ordered"] =
                             train_df.rows[i]["total_ordered"]

\* C4 happens: a category total that is more than one row's own count
C4_Witness ==
    /\ Returned("calculate_total_ordered")
    /\ \E i \in 1..NRows(train_df) :
          train_df.rows[i]["total_ordered"] > train_df.rows[i]["ordered"]

\* the event log and allowlist of the end-to-end scenario
ScenarioGiven ==
    /\ mode = "process_data"
    /\ data.isDataFrame
    /\ data.columns = EventCols
    /\ Range(data.rows) = {Event(1, 1, "A"), Event(1, 2, "A"),
                           Event(1, 2, "B"), Event(2, 1, "A")}
    /\ sub = IdFrame(<<"1;A", "1;B", "2;A">>)

\* C5: for user 1 with orders {A} then {A, B}, user 2 with one order {A} and
\* the allowlist "1;A", "1;B", "2;A", process_data returns exactly two rows:
\* "1;A" with ordered 1, orders_total 1, rating 1, target 1 and "1;B" with
\* ordered 0, orders_total 1, rating 0, target 1; no row is of user 2.
C5_EndToEndScenario ==
    (ScenarioGiven /\ pc = "done") =>
        /\ NRows(train_df) = 2
        /\ \E i \in 1..2 :
              /\ train_df.rows[i]["id"] = "1;A"
              /\ train_df.rows[i]["ordered"] = 1
              /\ train_df.rows[i]["orders_total"] = 1
              /\ train_df.rows[i]["rating"] = ToFloat(1)
              /\ train_df.rows[i]["target"] = 1
        /\ \E i \in 1..2 :
              /\ train_df.rows[i]["id"] = "1;B"
              /\ train_df.rows[i]["ordered"] = 0
              /\ train_df.rows[i]["orders_total"] = 1
              /\ train_df.rows[i]["rating"] = ToFloat(0)
              /\ train_df.rows[i]["target"] = 1
        /\ \A i \in 1..2 : train_df.rows[i]["user_id"] # 2

\* C5 happens: process_data has returned on the scenario's input
C5_Witness == ScenarioGiven /\ pc = "done"

\* the users with a row in df
UsersOf(df) == {df.rows[i]["user_id"] : i \in 1..NRows(df)}

\* the rows of df of user u
RowsOfUser(df, u) == {i \in 1..NRows(df) : df.rows[i]["user_id"] = u}

\* df holds exactly one row per user, for at least one user
OneRowPerUser(df) ==
    /\ NRows(df) >= 1
    /\ \A u \in UsersOf(df) : Cardinality(RowsOfUser(df, u)) = 1

\* the distinct orders of user u in the event table
OrdersOf(u) ==
    {data.rows[i]["order_completed_at"] : i \in RowsOfUser(data, u)}

\* C3: given a holdout table with one row per user (one user or more),
\* calculate_features sets orders_total of every history row to the holdout
\* order_number of the row's user and rating to ordered / orders_total
\* (2 / 4 is exactly 0.5); in process_data orders_total is the number of the
\* user's orders that the history aggregate was summed from.
C3_OrdersTotalAndRating ==
    /\ (/\ last = "calculate_features"
        /\ OneRowPerUser(before[2])
        /\ UsersOf(before[1]) \subseteq UsersOf(before[2])) =>
          /\ pc # "raised"
          /\ NRows(feature_table) = NRows(before[1])
          /\ \A i \in 1..NRows(feature_table) :
                LET r == feature_table.rows[i]
                    h == CHOOSE j \in RowsOfUser(before[2], r["user_id"]) : TRUE
                IN /\ r["orders_total"] = before[2].rows[h]["order_number"]
                   /\ r["rating"] = TrueDiv(r["ordered"], r["orders_total"])
                   /\ (r["ordered"] = 2 /\ r["orders_total"] = 4) =>
                         r["rating"] = [num |-> 1, den |-> 2]
    /\ (mode = "process_data" /\ Returned("calculate_features")) =>
          \A i \in 1..NRows(feature_table) :
             feature_table.rows[i]["orders_total"] =
                Cardinality(OrdersOf(feature_table.rows[i]["user_id"])) - 1

\* the cart values of the event table
CartsOf(df) == {df.rows[i]["cart"] : i \in 1..NRows(df)}

\* C9: in process_data both long tables have exactly (distinct users of the
\* input) x (distinct item columns) rows, one per (user, item) pair.
C9_LongTablesAreUsersTimesItems ==
    (mode = "process_data" /\ Returned("long_format_transform")) =>
        \A long \in {df_ex_last_flatten, df_incl_last_flatten} :
           /\ NRows(long) =
                 Cardinality(UsersOf(data)) * Cardinality(CartsOf(data))
           /\ \A u \in UsersOf(data) : \A c \in CartsOf(data) :
                 Cardinality({i \in 1..NRows(long) :
                                /\ long.rows[i]["user_id"] = u
                                /\ long.rows[i]["category"] = c}) = 1

\* each user's order_number values in df are pairwise distinct
DistinctOrderNumbers(df) ==
    \A i, j \in 1..NRows(df) :
       (/\ df.rows[i]["user_id"] = df.rows[j]["user_id"]
        /\ df.rows[i]["order_number"] = df.rows[j]["order_number"]) => i = j

RECURSIVE SumCells(_, _, _)
\* sum of column c over the rows S of df, a bool cell counting 0 or 1
SumCells(df, S, c) ==
    IF S = {} THEN 0
    ELSE LET i == CHOOSE k \in S : TRUE
             v == IF df.dtypes[c] = "bool" THEN BoolToInt(df.rows[i][c])
                  ELSE df.rows[i][c]
         IN v + SumCells(df, S \ {i}, c)

\* C6: when each user's order_number values are distinct, split_dataset puts
\* exactly one row per user into the holdout table, the user's row of
\* greatest order_number, and every other input row, and no holdout row, is
\* summed into the user's history row.
C6_SplitIsAPartition ==
    (Returned("split_dataset") /\ DistinctOrderNumbers(before[1])) =>
        LET given == before[1]
            held == {i \in 1..NRows(given) :
                       given.rows[i] \in Range(df_incl_last.rows)}
        IN /\ Range(df_incl_last.rows) \subseteq Range(given.rows)
           /\ UsersOf(df_ex_last) \subseteq UsersOf(given)
           /\ \A u \in UsersOf(given) :
                 LET mine == RowsOfUser(given, u)
                     rest == mine \ held
                 IN /\ Cardinality(RowsOfUser(df_incl_last, u)) = 1
                    /\ Cardinality(mine \cap held) = 1
                    /\ \A i \in mine \cap held : \A j \in mine :
                          given.rows[j]["order_number"] <=
                             given.rows[i]["order_number"]
                    /\ Cardinality(RowsOfUser(df_ex_last, u)) =
                          IF rest = {} THEN 0 ELSE 1
                    /\ \A k \in RowsOfUser(df_ex_last, u) :
                          \A c \in Cols(given) \ {"user_id"} :
                             df_ex_last.rows[k][c] = SumCells(given, rest, c)

\* C6 happens: a history row sums several input rows, and the held-out row
\* is not the last row of the input
C6_Witness ==
    /\ Returned("split_dataset")
    /\ DistinctOrderNumbers(before[1])
    /\ NRows(df_ex_last) >= 1
    /\ NRows(before[1]) > NRows(df_incl_last) + NRows(df_ex_last)
    /\ df_incl_last.rows[1] # before[1].rows[NRows(before[1])]

\* the (user_id, order_completed_at) pairs of df
OrderKeys(df) ==
    {<<df.rows[i]["user_id"], df.rows[i]["order_completed_at"]>> :
       i \in 1..NRows(df)}

\* C7: create_user_item_matrix returns one row per distinct (user_id,
\* order_completed_at) pair of its input and one bool column per distinct
\* cart value; a cell is true exactly when some input row has that user,
\* order and cart value.
C7_MatrixIsOrderByItemPresence ==
    Returned("create_user_item_matrix") =>
        LET given == before[1]
            m == intersection_matrix
            items == Cols(m) \ {"user_id", "order_completed_at"}
        IN /\ NRows(m) = Cardinality(OrderKeys(given))
           /\ OrderKeys(m) = OrderKeys(given)
           /\ items = CartsOf(given)
           /\ Len(m.columns) = 2 + Cardinality(CartsOf(given))
           /\ \A i \in 1..NRows(m) : \A c \in items :
                 /\ m.dtypes[c] = "bool"
                 /\ m.rows[i][c] \in BOOLEAN
                 /\ m.rows[i][c] <=>
                       \E j \in 1..NRows(given) :
                          given.rows[j] = Event(m.rows[i]["user_id"],
                                                m.rows[i]["order_completed_at"],
                                                c)

\* C7 happens: several input rows fall into one order, and an order lacks an
\* item another order has
C7_Witness ==
    /\ Returned("create_user_item_matrix")
    /\ NRows(intersection_matrix) >= 2
    /\ NRows(intersection_matrix) < NRows(before[1])
    /\ \E i \in 1..NRows(intersection_matrix) :
          \E c \in Cols(intersection_matrix)
                     \ {"user_id", "order_completed_at"} :
             ~intersection_matrix.rows[i][c]

\* C8: add_purchase_counter numbers each user's k rows 0, 1, ..., k-1, each
\* once, in the order the rows have in the input; the rows stay in place and
\* the output has no order_completed_at column.
C8_CounterNumbersRowsInInputOrder ==
    Returned("add_purchase_counter") =>
        LET given == before[1]
            out == intersection_matrix_with_counter
        IN /\ NRows(out) = NRows(given)
           /\ "order_completed_at" \notin Cols(out)
           /\ \A i \in 1..NRows(out) :
                 out.rows[i]["user_id"] = given.rows[i]["user_id"]
           /\ \A u \in UsersOf(given) :
                 /\ {out.rows[i]["order_number"] : i \in RowsOfUser(out, u)} =
                       0..(Cardinality(RowsOfUser(given, u)) - 1)
                 /\ \A i, j \in RowsOfUser(out, u) :
                       i < j => out.rows[i]["order_number"] <
                                   out.rows[j]["order_number"]

\* C8 happens: a user's rows are interleaved with another's and are not in
\* order_completed_at order
C8_Witness ==
    /\ Returned("add_purchase_counter")
    /\ \E i, j, k \in 1..NRows(before[1]) :
          /\ i < j /\ j < k
          /\ before[1].rows[i]["user_id"] = before[1].rows[k]["user_id"]
          /\ before[1].rows[i]["user_id"] # before[1].rows[j]["user_id"]
          /\ before[1].rows[i]["order_completed_at"] >
                before[1].rows[k]["order_completed_at"]
          /\ intersection_matrix_with_counter.rows[k]["order_number"] = 1

\* the validating methods, their required columns, argument and results
Validating ==
    {"create_user_item_matrix", "add_purchase_counter", "split_dataset"}
Required(m) ==
    CASE m = "create_user_item_matrix" ->
            {"cart", "user_id", "order_completed_at"}
      [] m = "add_purchase_counter" -> {"user_id", "order_completed_at"}
      [] m = "split_dataset" -> {"user_id", "order_number"}
Argument(m) ==
    CASE m = "create_user_item_matrix" -> data
      [] m = "add_purchase_counter" -> intersection_matrix
      [] m = "split_dataset" -> intersection_matrix_with_counter
Results(m) ==
    CASE m = "create_user_item_matrix" -> <<intersection_matrix>>
      [] m = "add_purchase_counter" -> <<intersection_matrix_with_counter>>
      [] m = "split_dataset" -> <<df_ex_last, df_incl_last>>

\* the argument is no table, or a table lacking a required column
BadArgument(m, df) == ~df.isDataFrame \/ ~(Required(m) \subseteq Cols(df))

\* C10: create_user_item_matrix, add_purchase_counter and split_dataset,
\* called with a non-table or with a table lacking a required column, raise
\* a ValueError (naming exactly the missing columns when columns are
\* missing), return nothing and leave the argument as it was.
C10_BadInputRaisesValueError ==
    \A m \in Validating :
       (last = m /\ BadArgument(m, before[1])) =>
           /\ pc = "raised"
           /\ err.type = "ValueError"
           /\ before[1].isDataFrame =>
                 /\ err.missing = Required(m) \ Cols(before[1])
                 /\ err.missing # {}
           /\ \A k \in 1..Len(Results(m)) : Results(m)[k] = NoFrame
           /\ Argument(m) = before[1]

\* C10 happens: split_dataset was called on a table without order_number
C10_Witness ==
    /\ last = "split_dataset"
    /\ pc = "raised"
    /\ before[1].isDataFrame
    /\ NRows(before[1]) >= 1
    /\ "order_number" \notin Cols(before[1])

\* the path has a dot and what follows its last dot is ext
HasExtension(p, ext) ==
    /\ \E i \in 1..Len(p) : p[i] = "."
    /\ Concat(SubSeq(p, Max({i \in 1..Len(p) : p[i] = "."}) + 1, Len(p))) = ext

\* C11: load_data invokes the CSV reader only for a path whose suffix after
\* the last '.' is exactly csv and the JSON reader only when it is exactly
\* json; any other path, a path without '.' included, raises the
\* unsupported-format ValueError and no reader is invoked.
C11_ReaderOnlyForCsvOrJsonExtension ==
    last = "load_data" =>
        /\ reader = "read_csv" => HasExtension(path, "csv")
        /\ reader = "read_json" => HasExtension(path, "json")
        /\ (~HasExtension(path, "csv") /\ ~HasExtension(path, "json")) =>
              /\ pc = "raised"
              /\ err = UnsupportedError
              /\ reader = "none"

\* C12: in process_data a user's order_number grows strictly with
\* order_completed_at whatever the row order of the event table, so the
\* held-out order of each user is the one of greatest order_completed_at: it
\* is fixed by the set of events, not by their row order.
C12_OrderNumberFollowsCompletionTime ==
    /\ (mode = "process_data" /\ Returned("add_purchase_counter")) =>
          \A i, j \in 1..NRows(before[1]) :
             (/\ before[1].rows[i]["user_id"] = before[1].rows[j]["user_id"]
              /\ before[1].rows[i]["order_completed_at"] <
                    before[1].rows[j]["order_completed_at"])
             => intersection_matrix_with_counter.rows[i]["order_number"] <
                   intersection_matrix_with_counter.rows[j]["order_number"]
    /\ (mode = "process_data" /\ Returned("split_dataset")) =>
          \A u \in UsersOf(data) :
             /\ Cardinality(RowsOfUser(df_incl_last, u)) = 1
             /\ \A k \in RowsOfUser(df_incl_last, u) :
                   /\ df_incl_last.rows[k]["order_number"] =
                         Cardinality(OrdersOf(u)) - 1
                   /\ \A c \in CartsOf(data) :
                         df_incl_last.rows[k][c] <=> InHoldoutOrder(u, c)

\* C12 happens: the event table lists a user's later order before the
\* earlier one, the two orders differ, and the split has been made
C12_Witness ==
    /\ mode = "process_data"
    /\ Returned("split_dataset")
    /\ \E i, j \in 1..NRows(data) :
          /\ i < j
          /\ data.rows[i]["user_id"] = data.rows[j]["user_id"]
          /\ data.rows[i]["order_completed_at"] >
                data.rows[j]["order_completed_at"]
          /\ data.rows[i]["cart"] # data.rows[j]["cart"]
          /\ ~InHoldoutOrder(data.rows[j]["user_id"], data.rows[j]["cart"])

\* the rows of the history table whose user has no row in the holdout table
Unmatched(history, holdout) ==
    {i \in 1..NRows(history) :
       history.rows[i]["user_id"] \notin UsersOf(holdout)}

\* C13: calculate_features raises whenever a user_id of the long history
\* table has no row in the holdout table, and never returns a table in which
\* such a row carries a NaN orders_total or rating.
C13_UnmatchedUserRaises ==
    (last = "calculate_features" /\ Unmatched(before[1], before[2]) # {}) =>
        /\ pc = "raised"
        /\ err # NoError
        /\ feature_table = NoFrame

\* C14: no stage modifies a table passed to it: when each of the seven
\* stages returns, every argument has the columns and the values it was
\* passed with.
C14_StagesLeaveArgumentsAsPassed ==
    /\ Returned("create_user_item_matrix") => data = before[1]
    /\ Returned("add_purchase_counter") => intersection_matrix = before[1]
    /\ Returned("split_dataset") =>
          intersection_matrix_with_counter = before[1]
    /\ Returned("long_format_transform") =>
          /\ df_ex_last = before[1]
          /\ df_incl_last = before[2]
    /\ Returned("calculate_features") =>
          /\ df_ex_last_flatten = before[1]
          /\ df_incl_last = before[2]
    /\ Returned("merge_and_filter") =>
          /\ feature_table = before[1]
          /\ df_incl_last_flatten = before[2]
          /\ sub = before[3]
    /\ Returned("calculate_total_ordered") => train_df = before[1]

\* C15: the id built by calculate_features is unique per (user_id, category)
\* pair: two rows of the feature table with different pairs have different
\* ids, whatever the user and item identifiers are.
C15_IdIsUniquePerUserAndCategory ==
    Returned("calculate_features") =>
        \A i, j \in 1..NRows(feature_table) :
           (\/ feature_table.rows[i]["user_id"] #
                  feature_table.rows[j]["user_id"]
            \/ feature_table.rows[i]["category"] #
                  feature_table.rows[j]["category"])
           => feature_table.rows[i]["id"] # feature_table.rows[j]["id"]

====
